---- MODULE Spec2Model ----
(***************************************************************************)
(* Model of the three snippets of the repository.                          *)
(*                                                                         *)
(*   devirtualize.cpp        BaseChild/BaseParent, AChild/AParent,         *)
(*                           BChild/BParent and the driver foo().          *)
(*   devirtualize_class.cpp  two snippets that define the same class       *)
(*                           names: lines 1-129 (create() only, called     *)
(*                           "virtual" below) and lines 130-258 (with the  *)
(*                           non-virtual create_exact(), called "exact").  *)
(*   nd_offset.cpp           nd_offset_internal(), nd_offset() and sum().  *)
(*                                                                         *)
(* The snippets have no program around them, so each specification is a    *)
(* single-threaded client of one snippet, over a heap of allocations whose *)
(* identities are never reused:                                            *)
(*                                                                         *)
(*   SpecChild    the client constructs children itself and queries them;  *)
(*   Spec         the client calls create(), create_exact(), initialize(), *)
(*                get(), wrapped_get() on one parent of each class and     *)
(*                lets its handles go out of scope;                        *)
(*   SpecDrivers  the client calls the drivers foo() and bar();            *)
(*   SpecOffset   nd_offset() applied to bounded arguments;                *)
(*   SpecSum      the loop of sum().                                       *)
(*                                                                         *)
(* Payloads are drawn from a small range of int on which the code's        *)
(* arithmetic (payload + 20, the sum in bar) is exact.                     *)
(***************************************************************************)
EXTENDS Integers, Sequences, FiniteSets, TLC

\* ------------------------------------------------------------------ bounds
MaxPayload == 1
MaxClientAllocs == 2
MaxDriverCalls == 1

Payloads == 0 .. MaxPayload

VARIABLES
    unit,       \* which snippet the program is built from
    build,      \* "ok", or "ill_formed" once the program uses a construct that does not compile
    parents,    \* the parent objects the client constructed: <<[cls, my_payload]>>
    wrappers,   \* the ActualWrapperParent<Core_> objects the client constructed
    heap,       \* every allocation made by make_unique, live or released
    handles,    \* the allocations the client owns through a unique_ptr
    fooF,       \* the frame of a running foo()
    barF,       \* the frame of a running bar()
    ret,        \* the last driver call that returned
    uaf,        \* TRUE once a released allocation was accessed
    ncalls,     \* the number of driver calls started
    nclient,    \* the number of factory calls the client made itself
    off,        \* nd_offset.cpp: the arguments of nd_offset() and its result
    sumF        \* nd_offset.cpp: the frame of sum()

objvars == <<unit, build, parents, wrappers, heap, handles, fooF, barF, ret, uaf, ncalls, nclient>>

offvars == <<off, sumF>>

vars == <<objvars, offvars>>

Units == {"devirtualize", "virtual", "exact"}

ParentClasses(u) ==
    IF u = "devirtualize" THEN {"AParent", "BParent"} ELSE {"ACoreParent", "BCoreParent"}

ChildClasses(u) ==
    IF u = "devirtualize" THEN {"AChild", "BChild"} ELSE {"ACoreChild", "BCoreChild"}

\* ------------------------------------------------------- devirtualize.cpp
\* A member function is modelled by its result and the payload it leaves in
\* the object: [val, payload].

AChild_get(payload) == [val |-> payload, payload |-> payload]

\* Variant of BChild::get() that forgets the offset (sensitivity of C2).
BChild_get_NoOffset(payload) == [val |-> payload, payload |-> payload]

BChild_get(payload) == [val |-> payload + 20, payload |-> payload]

\* make_unique<C>(p): the class and the constructor argument of the new object.
AParent_create(my_payload) == [cls |-> "AChild", payload |-> my_payload]

\* As written in the source: BParent::create() makes an AChild.
BParent_create(my_payload) == [cls |-> "AChild", payload |-> my_payload]

\* ------------------------------------------- devirtualize_class.cpp, both

ACoreChild_get(payload) == [val |-> payload, payload |-> payload]

\* Variant of BCoreChild::get() that adds the offset to the stored payload,
\* return payload += 20 (sensitivity of C9).
BCoreChild_get_Mutating(payload) == [val |-> payload + 20, payload |-> payload + 20]

BCoreChild_get(payload) == [val |-> payload + 20, payload |-> payload]

\* ------------------------------- devirtualize_class.cpp, lines 1-129

Virtual_ACoreParent_create(my_payload) == [cls |-> "ACoreChild", payload |-> my_payload]

Virtual_BCoreParent_create(my_payload) == [cls |-> "BCoreChild", payload |-> my_payload]

\* ------------------------------- devirtualize_class.cpp, lines 130-258

ACoreParent_create_exact(my_payload) == [cls |-> "ACoreChild", payload |-> my_payload]

Exact_ACoreParent_create(my_payload) == ACoreParent_create_exact(my_payload)

BCoreParent_create_exact(my_payload) == [cls |-> "BCoreChild", payload |-> my_payload]

\* Variant of BCoreParent::create() with the slip of BParent::create(): it
\* makes an A child (sensitivity of C3).
Exact_BCoreParent_create_AChild(my_payload) == [cls |-> "ACoreChild", payload |-> my_payload]

Exact_BCoreParent_create(my_payload) == BCoreParent_create_exact(my_payload)

\* ------------------------------------------------------- virtual dispatch

\* p->create(): the override of the dynamic class of p, in snippet u.
create(u, p) ==
    CASE p.cls = "AParent" -> AParent_create(p.my_payload)
      [] p.cls = "BParent" -> BParent_create(p.my_payload)
      [] p.cls = "ACoreParent" /\ u = "virtual" -> Virtual_ACoreParent_create(p.my_payload)
      [] p.cls = "BCoreParent" /\ u = "virtual" -> Virtual_BCoreParent_create(p.my_payload)
      [] p.cls = "ACoreParent" /\ u = "exact" -> Exact_ACoreParent_create(p.my_payload)
      [] p.cls = "BCoreParent" /\ u = "exact" -> Exact_BCoreParent_create(p.my_payload)

\* BaseCoreParent::create_exact() { return create(); }
BaseCoreParent_create_exact(u, p) == create(u, p)

\* ref.create_exact() is not virtual: the static type of ref selects it.
create_exact(u, stype, p) ==
    CASE stype = "BaseCoreParent" -> BaseCoreParent_create_exact(u, p)
      [] stype = "ACoreParent" -> ACoreParent_create_exact(p.my_payload)
      [] stype = "BCoreParent" -> BCoreParent_create_exact(p.my_payload)

\* c->get(): the override of the dynamic class of c.
get(c) ==
    CASE c.cls = "AChild" -> AChild_get(c.payload)
      [] c.cls = "BChild" -> BChild_get(c.payload)
      [] c.cls = "ACoreChild" -> ACoreChild_get(c.payload)
      [] c.cls = "BCoreChild" -> BCoreChild_get(c.payload)

\* ------------------------------------------------------------- the heap
\* One record per allocation. payload0, st, rel, maker, via, stype and got are
\* history: the payload at construction, whether the allocation is live,
\* how often it was released, the parent and the call that made it, the
\* static type the call went through, and the values its accessor returned.

NewObj(cls, payload, child, maker, via, stype) ==
    [cls |-> cls, payload |-> payload, payload0 |-> payload, child |-> child,
     st |-> "live", rel |-> 0, maker |-> maker, via |-> via, stype |-> stype,
     got |-> {}]

\* std::make_unique: a new allocation, distinct from every earlier one.
make_unique(h, obj) == Append(h, obj)

\* delete p: the object is destroyed and its storage released.
delete(h, id) == [h EXCEPT ![id].st = "dead", ![id].rel = @ + 1]

\* Variant of the release in which my_core_child is not released with the
\* wrapper child that owns it (sensitivity of C10).
unique_ptr_dtor_Shallow(h, id) == delete(h, id)

\* ~unique_ptr(): deletes what it owns; the implicit destructor of
\* ActualWrapperChild destroys its member my_core_child, which deletes the
\* core child.
unique_ptr_dtor(h, id) ==
    IF h[id].child # 0 THEN delete(delete(h, h[id].child), id) ELSE delete(h, id)

\* p->get() on allocation id: the value and the heap after the call.
Call_get(h, id) ==
    LET r == get(h[id])
    IN  [val |-> r.val,
         heap |-> [h EXCEPT ![id].payload = r.payload, ![id].got = @ \cup {r.val}]]

\* ---------------------------------- ActualWrapperChild / ActualWrapperParent

NoWrapper == [Core |-> "none", core |-> 0]

CoreTypes == {"BaseCoreParent", "ACoreParent", "BCoreParent"}

\* The declared pointee of ActualWrapperParent<Core_>::my_core_parent.
my_core_parent_type(u, Core) == IF u = "exact" THEN "BaseCoreParent" ELSE Core

\* Whether an lvalue of class arg binds to a parameter const param&: the same
\* class, or a derived class to its base. There is no base-to-derived binding.
Binds(param, arg) == param = arg \/ param = "BaseCoreParent"

\* Whether make_unique<ActualWrapperChild<Core_>>(*my_core_parent) compiles.
initialize_well_formed(u, Core) == Binds(Core, my_core_parent_type(u, Core))

\* ActualWrapperChild(const Core_& core_parent): my_core_child(...)
ActualWrapperChild_ctor(u, Core, p) ==
    IF u = "exact" THEN create_exact(u, Core, p) ELSE create(u, p)

\* ActualWrapperParent<Core_>::initialize(): the wrapper child is allocated,
\* then its constructor allocates the core child.
ActualWrapperParent_initialize(u, h, w, p) ==
    LET wid == Len(h) + 1
        c == ActualWrapperChild_ctor(u, w.Core, p)
        h1 == make_unique(h, NewObj("ActualWrapperChild", 0, wid + 1, w.core,
                                    "initialize", w.Core))
    IN  make_unique(h1, NewObj(c.cls, c.payload, 0, w.core,
                               IF u = "exact" THEN "create_exact" ELSE "create",
                               w.Core))

\* ActualWrapperChild::wrapped_get() { return my_core_child->get(); }
ActualWrapperChild_wrapped_get(h, id) ==
    LET r == Call_get(h, h[id].child)
    IN  [val |-> r.val, heap |-> [r.heap EXCEPT ![id].got = @ \cup {r.val}]]

\* ------------------------------------------------------------ the state

NoFoo == [pc |-> "none", ap |-> 0, wp |-> NoWrapper, value |-> 0, tmp |-> 0,
          slot |-> 0, mark |-> 0]

NoBar == [pc |-> "none", w |-> <<NoWrapper, NoWrapper, NoWrapper>>,
          res |-> <<0, 0, 0>>, done |-> {}, mark |-> 0]

NoRet == [fn |-> "none", ok |-> TRUE, val |-> 0, ap |-> 0, wp |-> NoWrapper,
          w |-> <<NoWrapper, NoWrapper, NoWrapper>>, lo |-> 1, hi |-> 0]

NoOff == [pc |-> "none", args |-> <<>>, res |-> 0]

NoSum == [pc |-> "none", mat |-> <<>>, NR |-> 0, NC |-> 0, r0 |-> 0, c |-> 0,
          r |-> 0, val |-> 0, reads |-> <<>>]

\* AParent(p) / ACoreParent(p)
AParent_ctor(u, p) ==
    [cls |-> IF u = "devirtualize" THEN "AParent" ELSE "ACoreParent", my_payload |-> p]

\* BParent(p) / BCoreParent(p)
BParent_ctor(u, p) ==
    [cls |-> IF u = "devirtualize" THEN "BParent" ELSE "BCoreParent", my_payload |-> p]

InitObjects ==
    /\ unit \in Units
    /\ build = "ok"
    /\ wrappers = <<>>
    /\ heap = <<>>
    /\ handles = {}
    /\ fooF = NoFoo
    /\ barF = NoBar
    /\ ret = NoRet
    /\ uaf = FALSE
    /\ ncalls = 0
    /\ nclient = 0
    /\ off = NoOff
    /\ sumF = NoSum

\* The client of SpecChild constructs no parent.
InitChild == InitObjects /\ parents = <<>>

\* The client of Spec has constructed one parent of each concrete class.
Init ==
    /\ InitObjects
    /\ \E pa, pb \in Payloads :
          parents = <<AParent_ctor(unit, pa), BParent_ctor(unit, pb)>>

\* The client of SpecDrivers has constructed one parent of each concrete
\* class and a third one of either class.
InitDrivers ==
    /\ InitObjects
    /\ \E pa, pb, px \in Payloads :
          parents \in {<<AParent_ctor(unit, pa), BParent_ctor(unit, pb), AParent_ctor(unit, px)>>,
                       <<AParent_ctor(unit, pa), BParent_ctor(unit, pb), BParent_ctor(unit, px)>>}

\* The client runs only between driver calls of a program that compiles.
Idle == build = "ok" /\ fooF.pc = "none" /\ barF.pc = "none"

\* ------------------------------------------------- the client's own calls

\* std::make_unique<AChild>(p) and the like, by the client itself.
NewChild(c, p) ==
    /\ Idle
    /\ nclient < MaxClientAllocs
    /\ c \in ChildClasses(unit)
    /\ heap' = make_unique(heap, NewObj(c, p, 0, 0, "new", c))
    /\ handles' = handles \cup {Len(heap) + 1}
    /\ nclient' = nclient + 1
    /\ UNCHANGED <<unit, build, parents, wrappers, fooF, barF, ret, uaf, ncalls, offvars>>

\* auto child = parent.create();
Create(i) ==
    /\ Idle
    /\ nclient < MaxClientAllocs
    /\ i \in 1..Len(parents)
    /\ LET c == create(unit, parents[i])
       IN  heap' = make_unique(heap, NewObj(c.cls, c.payload, 0, i, "create", parents[i].cls))
    /\ handles' = handles \cup {Len(heap) + 1}
    /\ nclient' = nclient + 1
    /\ UNCHANGED <<unit, build, parents, wrappers, fooF, barF, ret, uaf, ncalls, offvars>>

\* auto child = ref.create_exact(); with ref of static type stype bound to
\* parent i (its own class, or BaseCoreParent).
CreateExact(i, stype) ==
    /\ Idle
    /\ unit = "exact"
    /\ nclient < MaxClientAllocs
    /\ i \in 1..Len(parents)
    /\ Binds(stype, parents[i].cls)
    /\ LET c == create_exact(unit, stype, parents[i])
       IN  heap' = make_unique(heap, NewObj(c.cls, c.payload, 0, i, "create_exact", stype))
    /\ handles' = handles \cup {Len(heap) + 1}
    /\ nclient' = nclient + 1
    /\ UNCHANGED <<unit, build, parents, wrappers, fooF, barF, ret, uaf, ncalls, offvars>>

\* child->get();
Get(id) ==
    /\ Idle
    /\ id \in handles
    /\ heap[id].cls # "ActualWrapperChild"
    /\ heap' = Call_get(heap, id).heap
    /\ uaf' = (uaf \/ heap[id].st # "live")
    /\ UNCHANGED <<unit, build, parents, wrappers, handles, fooF, barF, ret, ncalls, nclient, offvars>>

\* ActualWrapperParent<Core_> w(core); with core a shared_ptr<Core_> to
\* parent i. Defining the object instantiates the class and its virtual
\* member initialize(); where that is ill-formed the program does not build.
\* The client of Spec constructs at most one wrapper.
NewWrapper(Core, i) ==
    /\ Idle
    /\ unit \in {"virtual", "exact"}
    /\ wrappers = <<>>
    /\ i \in 1..Len(parents)
    /\ Binds(Core, parents[i].cls)
    /\ IF initialize_well_formed(unit, Core)
       THEN /\ wrappers' = <<[Core |-> Core, core |-> i]>>
            /\ UNCHANGED <<build, ret>>
       ELSE /\ build' = "ill_formed"
            /\ ret' = [NoRet EXCEPT !.fn = "ActualWrapperParent", !.ok = FALSE,
                                    !.wp = [Core |-> Core, core |-> i]]
            /\ UNCHANGED wrappers
    /\ UNCHANGED <<unit, parents, heap, handles, fooF, barF, uaf, ncalls, nclient, offvars>>

\* auto wchild = wparent.initialize();
Initialize(k) ==
    /\ Idle
    /\ nclient < MaxClientAllocs
    /\ k \in 1..Len(wrappers)
    /\ heap' = ActualWrapperParent_initialize(unit, heap, wrappers[k], parents[wrappers[k].core])
    /\ handles' = handles \cup {Len(heap) + 1}
    /\ nclient' = nclient + 1
    /\ UNCHANGED <<unit, build, parents, wrappers, fooF, barF, ret, uaf, ncalls, offvars>>

\* wchild->wrapped_get();
WrappedGet(id) ==
    /\ Idle
    /\ id \in handles
    /\ heap[id].cls = "ActualWrapperChild"
    /\ heap' = ActualWrapperChild_wrapped_get(heap, id).heap
    /\ uaf' = (uaf \/ heap[id].st # "live" \/ heap[heap[id].child].st # "live")
    /\ UNCHANGED <<unit, build, parents, wrappers, handles, fooF, barF, ret, ncalls, nclient, offvars>>

\* The client's unique_ptr goes out of scope.
Destroy(id) ==
    /\ Idle
    /\ id \in handles
    /\ heap' = unique_ptr_dtor(heap, id)
    /\ handles' = handles \ {id}
    /\ UNCHANGED <<unit, build, parents, wrappers, fooF, barF, ret, uaf, ncalls, nclient, offvars>>

NextChild ==
    \/ \E c \in ChildClasses(unit), p \in Payloads : NewChild(c, p)
    \/ \E id \in handles : Get(id)
    \/ \E id \in handles : Destroy(id)

SpecChild == InitChild /\ [][NextChild]_vars

Next ==
    \/ \E i \in 1..Len(parents) : Create(i)
    \/ \E i \in 1..Len(parents), t \in CoreTypes : CreateExact(i, t)
    \/ \E id \in handles : Get(id)
    \/ \E t \in CoreTypes, i \in 1..Len(parents) : NewWrapper(t, i)
    \/ \E k \in 1..Len(wrappers) : Initialize(k)
    \/ \E id \in handles : WrappedGet(id)
    \/ \E id \in handles : Destroy(id)

Spec == Init /\ [][Next]_vars

\* ------------------------------------ devirtualize.cpp: foo(const AParent&)

\* foo(ap) with ap bound to parent i.
Foo_call(i) ==
    /\ Idle
    /\ unit = "devirtualize"
    /\ ncalls < MaxDriverCalls
    /\ i \in 1..Len(parents)
    /\ parents[i].cls = "AParent"
    /\ fooF' = [NoFoo EXCEPT !.pc = "create", !.ap = i, !.mark = Len(heap)]
    /\ ncalls' = ncalls + 1
    /\ UNCHANGED <<unit, build, parents, wrappers, heap, handles, barF, ret, uaf, nclient, offvars>>

\* auto value = ap.create();
Foo_create ==
    /\ fooF.pc = "create"
    /\ LET c == create(unit, parents[fooF.ap])
       IN  heap' = make_unique(heap, NewObj(c.cls, c.payload, 0, fooF.ap, "create",
                                            parents[fooF.ap].cls))
    /\ fooF' = [fooF EXCEPT !.pc = "get", !.value = Len(heap) + 1]
    /\ UNCHANGED <<unit, build, parents, wrappers, handles, barF, ret, uaf, ncalls, nclient, offvars>>

\* value->get()
Foo_get ==
    /\ fooF.pc = "get"
    /\ LET r == Call_get(heap, fooF.value)
       IN  /\ heap' = r.heap
           /\ fooF' = [fooF EXCEPT !.pc = "return", !.tmp = r.val]
    /\ uaf' = (uaf \/ heap[fooF.value].st # "live")
    /\ UNCHANGED <<unit, build, parents, wrappers, handles, barF, ret, ncalls, nclient, offvars>>

\* return: value goes out of scope.
Foo_return ==
    /\ fooF.pc = "return"
    /\ heap' = unique_ptr_dtor(heap, fooF.value)
    /\ ret' = [NoRet EXCEPT !.fn = "foo", !.val = fooF.tmp, !.ap = fooF.ap,
                            !.lo = fooF.mark + 1, !.hi = Len(heap)]
    /\ fooF' = NoFoo
    /\ UNCHANGED <<unit, build, parents, wrappers, handles, barF, uaf, ncalls, nclient, offvars>>

\* -------------------- devirtualize_class.cpp: foo(const BaseWrapperParent&)

\* ActualWrapperParent<Core_> w(core); foo(w); with core a shared_ptr<Core_>
\* to parent i. Where ActualWrapperParent<Core_> cannot be instantiated the
\* program does not build.
WFoo_call(Core, i) ==
    /\ Idle
    /\ unit \in {"virtual", "exact"}
    /\ ncalls < MaxDriverCalls
    /\ i \in 1..Len(parents)
    /\ Binds(Core, parents[i].cls)
    /\ ncalls' = ncalls + 1
    /\ LET w == [Core |-> Core, core |-> i]
       IN  IF initialize_well_formed(unit, Core)
           THEN /\ fooF' = [NoFoo EXCEPT !.pc = "initialize", !.wp = w, !.mark = Len(heap)]
                /\ UNCHANGED <<build, ret>>
           ELSE /\ build' = "ill_formed"
                /\ ret' = [NoRet EXCEPT !.fn = "wfoo", !.ok = FALSE, !.wp = w]
                /\ UNCHANGED fooF
    /\ UNCHANGED <<unit, parents, wrappers, heap, handles, barF, uaf, nclient, offvars>>

\* auto wchild = wparent.initialize();
WFoo_initialize ==
    /\ fooF.pc = "initialize"
    /\ heap' = ActualWrapperParent_initialize(unit, heap, fooF.wp, parents[fooF.wp.core])
    /\ fooF' = [fooF EXCEPT !.pc = "wrapped_get", !.value = Len(heap) + 1]
    /\ UNCHANGED <<unit, build, parents, wrappers, handles, barF, ret, uaf, ncalls, nclient, offvars>>

\* wchild->wrapped_get()
WFoo_wrapped_get ==
    /\ fooF.pc = "wrapped_get"
    /\ LET r == ActualWrapperChild_wrapped_get(heap, fooF.value)
       IN  /\ heap' = r.heap
           /\ fooF' = [fooF EXCEPT !.pc = "wreturn", !.tmp = r.val]
    /\ uaf' = (uaf \/ heap[fooF.value].st # "live"
                   \/ heap[heap[fooF.value].child].st # "live")
    /\ UNCHANGED <<unit, build, parents, wrappers, handles, barF, ret, ncalls, nclient, offvars>>

\* return: wchild goes out of scope; the value goes to the caller, the client
\* or the running bar().
WFoo_return ==
    /\ fooF.pc = "wreturn"
    /\ heap' = unique_ptr_dtor(heap, fooF.value)
    /\ IF fooF.slot = 0
       THEN /\ ret' = [NoRet EXCEPT !.fn = "wfoo", !.val = fooF.tmp, !.wp = fooF.wp,
                                    !.lo = fooF.mark + 1, !.hi = Len(heap)]
            /\ UNCHANGED barF
       ELSE /\ barF' = [barF EXCEPT !.res[fooF.slot] = fooF.tmp,
                                    !.done = @ \cup {fooF.slot}]
            /\ UNCHANGED ret
    /\ fooF' = NoFoo
    /\ UNCHANGED <<unit, build, parents, wrappers, handles, uaf, ncalls, nclient, offvars>>

\* ----------------------------------------- devirtualize_class.cpp: bar()

\* bar(base, abase, bbase) with shared pointers to parents b, a and bb. The
\* three wrappers are locals of bar. Defining them instantiates
\* ActualWrapperParent for BaseCoreParent, ACoreParent and BCoreParent.
Bar_call(b, a, bb) ==
    /\ Idle
    /\ unit \in {"virtual", "exact"}
    /\ ncalls < MaxDriverCalls
    /\ {b, a, bb} \subseteq 1..Len(parents)
    /\ parents[a].cls = "ACoreParent"
    /\ parents[bb].cls = "BCoreParent"
    /\ ncalls' = ncalls + 1
    /\ LET w == <<[Core |-> "BaseCoreParent", core |-> b],
                  [Core |-> "ACoreParent", core |-> a],
                  [Core |-> "BCoreParent", core |-> bb]>>
       IN  IF \A s \in 1..3 : initialize_well_formed(unit, w[s].Core)
           THEN /\ barF' = [NoBar EXCEPT !.pc = "run", !.w = w, !.mark = Len(heap)]
                /\ UNCHANGED <<build, ret>>
           ELSE /\ build' = "ill_formed"
                /\ ret' = [NoRet EXCEPT !.fn = "bar", !.ok = FALSE, !.w = w]
                /\ UNCHANGED barF
    /\ UNCHANGED <<unit, parents, wrappers, heap, handles, fooF, uaf, nclient, offvars>>

\* One of foo(parent), foo(aparent), foo(bparent): the operands of + are
\* evaluated in an order the language leaves open.
Bar_foo(s) ==
    /\ barF.pc = "run"
    /\ fooF.pc = "none"
    /\ s \in (1..3) \ barF.done
    /\ fooF' = [NoFoo EXCEPT !.pc = "initialize", !.wp = barF.w[s], !.slot = s,
                             !.mark = Len(heap)]
    /\ UNCHANGED <<unit, build, parents, wrappers, heap, handles, barF, ret, uaf, ncalls, nclient, offvars>>

\* return foo(parent) + foo(aparent) + foo(bparent); the wrappers go out of
\* scope.
Bar_return ==
    /\ barF.pc = "run"
    /\ fooF.pc = "none"
    /\ barF.done = 1..3
    /\ ret' = [NoRet EXCEPT !.fn = "bar", !.val = barF.res[1] + barF.res[2] + barF.res[3],
                            !.w = barF.w, !.lo = barF.mark + 1, !.hi = Len(heap)]
    /\ barF' = NoBar
    /\ UNCHANGED <<unit, build, parents, wrappers, heap, handles, fooF, uaf, ncalls, nclient, offvars>>

NextDrivers ==
    \/ \E i \in 1..Len(parents) : Foo_call(i)
    \/ Foo_create
    \/ Foo_get
    \/ Foo_return
    \/ \E t \in CoreTypes, i \in 1..Len(parents) : WFoo_call(t, i)
    \/ WFoo_initialize
    \/ WFoo_wrapped_get
    \/ WFoo_return
    \/ \E b, a, bb \in 1..Len(parents) : Bar_call(b, a, bb)
    \/ \E s \in 1..3 : Bar_foo(s)
    \/ Bar_return

SpecDrivers == InitDrivers /\ [][NextDrivers]_vars

\* ===================================================================
\* Properties of the object snippets
\* ===================================================================

Allocs == 1 .. Len(heap)

\* The offset the variant of a class is documented to add: none for the A
\* classes, 20 for the B classes.
VariantOffset(cls) ==
    IF cls \in {"AParent", "ACoreParent", "AChild", "ACoreChild"} THEN 0 ELSE 20

\* What parent i's create()->get() returns, by the code.
CreateGet(i) == get(create(unit, parents[i])).val

\* C1: for every parent, the child made by create() returns the parent's
\* payload plus the offset of the parent's variant: p for AParent and
\* ACoreParent, p + 20 for BParent and BCoreParent.
C1_CreateMatchesVariant ==
    \A id \in Allocs :
        heap[id].via = "create" =>
            \A v \in heap[id].got :
                v = parents[heap[id].maker].my_payload
                      + VariantOffset(parents[heap[id].maker].cls)

\* C2: a variant-A child constructed with p returns exactly p from get(), a
\* variant-B child constructed with p returns exactly p + 20 (every payload
\* of the model is in the range where p + 20 does not overflow).
C2_ChildGet ==
    \A id \in Allocs :
        heap[id].via = "new" =>
            \A v \in heap[id].got :
                /\ heap[id].cls \in {"AChild", "ACoreChild"} => v = heap[id].payload0
                /\ heap[id].cls \in {"BChild", "BCoreChild"} => v = heap[id].payload0 + 20

\* C2 witness: the client constructed a variant-A and a variant-B child with
\* payload 1 and get() returned 1 on the first and 21 on the second.
C2_Witness ==
    \E a, b \in Allocs :
        /\ heap[a].via = "new" /\ heap[a].cls = "AChild"
        /\ heap[a].payload0 = 1 /\ heap[a].got = {1}
        /\ heap[b].via = "new" /\ heap[b].cls = "BChild"
        /\ heap[b].payload0 = 1 /\ heap[b].got = {21}

\* C3: in the snippet with create_exact(), a child made by create() and a
\* child made by create_exact() on the same parent, through a reference of
\* the parent's own class or of BaseCoreParent, have the same class and the
\* same payload, and get() returns the same value on both.
C3_CreateExactAgrees ==
    unit = "exact" =>
        \A a, b \in Allocs :
            ( /\ heap[a].via = "create"
              /\ heap[b].via = "create_exact"
              /\ heap[a].maker = heap[b].maker )
            => /\ heap[a].cls = heap[b].cls
               /\ heap[a].payload0 = heap[b].payload0
               /\ \A va \in heap[a].got, vb \in heap[b].got : va = vb

\* C3 witness: BCoreParent's create() and its create_exact() through a base
\* reference each made a child, and get() returned on both.
C3_Witness ==
    \E a, b \in Allocs :
        /\ heap[a].via = "create" /\ heap[b].via = "create_exact"
        /\ heap[a].maker = heap[b].maker
        /\ parents[heap[a].maker].cls = "BCoreParent"
        /\ heap[b].stype = "BaseCoreParent"
        /\ heap[a].got # {} /\ heap[b].got # {}

\* C4: for every wrapper parent around a core parent P, parameterized by
\* BaseCoreParent or by P's own class, in the snippet with create() and in
\* the snippet with create_exact(), foo(wrapper) returns what
\* P.create()->get() returns.
C4_WrapperForwards ==
    ret.fn = "wfoo" => ret.ok /\ ret.val = CreateGet(ret.wp.core)

\* C5: bar(base, abase, bbase) returns base->create()->get() + pa + (pb + 20),
\* whatever the order of the three foo() calls.
C5_BarSum ==
    ret.fn = "bar" =>
        /\ ret.ok
        /\ ret.val = CreateGet(ret.w[1].core)
                       + parents[ret.w[2].core].my_payload
                       + (parents[ret.w[3].core].my_payload + 20)

\* C4 and C5 in the snippet that compiles (lines 1-129).
VirtualSnippetDrivers == unit = "virtual" => C4_WrapperForwards /\ C5_BarSum

\* The allocations that own allocation id: the wrapper children whose
\* my_core_child is id.
OwnersOf(id) == {w \in Allocs : heap[w].child = id}

\* C9: whatever calls were made, every child holds the payload it was
\* constructed with, which is its parent's payload; every value get()
\* returned on a child is the one its class gives for that payload, so
\* repeated calls agree and no call on another child, no destruction and no
\* later create() changed it; and no two owners share a child.
C9_PayloadsUnchanged ==
    \A id \in Allocs :
        /\ heap[id].payload = heap[id].payload0
        /\ heap[id].cls # "ActualWrapperChild" =>
              /\ heap[id].payload0 = parents[heap[id].maker].my_payload
              /\ \A v \in heap[id].got :
                    v = heap[id].payload0 + VariantOffset(heap[id].cls)
        /\ heap[id].cls = "ActualWrapperChild" =>
              /\ heap[id].child \in Allocs \ {id}
              /\ heap[id].got = heap[heap[id].child].got
        /\ Cardinality(heap[id].got) <= 1
        /\ Cardinality(OwnersOf(id)) + (IF id \in handles THEN 1 ELSE 0) <= 1

\* C9 witness: two children of the same parent; the first was queried and
\* destroyed, the second was created after that, queried, and is alive.
C9_Witness ==
    \E a, b \in Allocs :
        /\ a < b
        /\ heap[a].maker = heap[b].maker
        /\ heap[a].cls \in ChildClasses(unit) /\ heap[b].cls \in ChildClasses(unit)
        /\ heap[a].st = "dead" /\ heap[a].got # {}
        /\ heap[b].st = "live" /\ heap[b].got # {}
        /\ heap[b].cls \in {"BChild", "BCoreChild"}

\* C10: no released allocation is accessed, no allocation is released twice,
\* and when a driver has returned every allocation made during the call
\* has been released exactly once.
C10_DriverReleases ==
    /\ ~uaf
    /\ \A id \in Allocs :
          /\ heap[id].rel <= 1
          /\ heap[id].st = "dead" <=> heap[id].rel = 1
    /\ (ret.fn \in {"foo", "wfoo", "bar"} /\ ret.ok) =>
          /\ ret.lo <= ret.hi
          /\ \A id \in ret.lo .. ret.hi : heap[id].st = "dead" /\ heap[id].rel = 1
    /\ Idle => \A id \in Allocs : heap[id].st = "dead"

\* C10 witness: bar() has returned after its three foo() calls made six
\* allocations.
C10_Witness ==
    /\ ret.fn = "bar" /\ ret.ok
    /\ ret.hi - ret.lo + 1 = 6

\* ===================================================================
\* nd_offset.cpp
\* ===================================================================
\* Size_ is std::size_t in the only instantiation. Positions and extents are
\* non-negative and small, so the conversions to Size_ keep their values and
\* the unsigned arithmetic is exact: it wraps at 2^64 only.

MaxPos == 3
MaxExtent == 5
MaxRows == 2
MaxCols == 2

\* The numbers of dimensions nd_offset() is applied to.
Dims == {2, 3, 4}

\* The matrix elements: doubles with small integer values, whose sums are exact.
Vals == {1, 2}

\* Variant of the two-parameter overload that adds (sensitivity of C6).
nd_offset_internal_2_Plus(extent, pos) == extent + pos

\* nd_offset_internal(Size_ extent, Size_ pos)
nd_offset_internal_2(extent, pos) == extent * pos

\* Variant of the variadic overload without the parentheses (sensitivity of C7).
nd_offset_internal_more_NoParens(extent, pos, inner) == pos + inner * extent

\* nd_offset_internal(Size_ extent, Size_ pos, MoreArgs_... more_args), with
\* inner the value of nd_offset_internal<Size_>(more_args...)
nd_offset_internal_more(extent, pos, inner) == (pos + inner) * extent

\* Overload resolution on the argument list <<extent, pos, more_args...>>:
\* the two-parameter overload for two arguments, the variadic one otherwise.
RECURSIVE nd_offset_internal(_)
nd_offset_internal(args) ==
    IF Len(args) = 2
    THEN nd_offset_internal_2(args[1], args[2])
    ELSE nd_offset_internal_more(args[1], args[2],
                                 nd_offset_internal(SubSeq(args, 3, Len(args))))

\* nd_offset<Size_>(x1, extent1, x2, remaining...)
nd_offset(args) == args[1] + nd_offset_internal(Tail(args))

\* The argument lists <<x1, extent1, x2, ..., extent_{n-1}, xn>> of n dimensions.
ArgLists(n) ==
    {a \in [1 .. 2 * n - 1 -> 0 .. MaxExtent] :
        \A k \in 1 .. 2 * n - 1 : k % 2 = 1 => a[k] <= MaxPos}

\* The object snippets take no part in nd_offset.cpp.
NoObjects ==
    /\ unit = "nd_offset"
    /\ build = "ok"
    /\ parents = <<>>
    /\ wrappers = <<>>
    /\ heap = <<>>
    /\ handles = {}
    /\ fooF = NoFoo
    /\ barF = NoBar
    /\ ret = NoRet
    /\ uaf = FALSE
    /\ ncalls = 0
    /\ nclient = 0

InitOffset ==
    /\ NoObjects
    /\ sumF = NoSum
    /\ \E n \in Dims : \E a \in ArgLists(n) : off = [pc |-> "call", args |-> a, res |-> 0]

\* res = nd_offset<std::size_t>(args...)
NdOffset_apply ==
    /\ off.pc = "call"
    /\ off' = [off EXCEPT !.pc = "done", !.res = nd_offset(off.args)]
    /\ UNCHANGED <<objvars, sumF>>

NextOffset == NdOffset_apply

SpecOffset == InitOffset /\ [][NextOffset]_vars

\* ------------------------------------------------------------------ sum()

\* The element index of (r, c): nd_offset<std::size_t>(c, NC, r)
Sum_index(c, NC, r) == nd_offset(<<c, NC, r>>)

\* Variant of the loop condition that runs one row too far (sensitivity of C8).
Sum_cond_Inclusive(r, NR) == r <= NR

\* The loop condition r < NR
Sum_cond(r, NR) == r < NR

\* sum(mat, NR, NC, r0, c) has been entered: val = 0, r = r0. mat is an NR
\* by NC row-major matrix (element i of the array is mat[i + 1]) and c is one
\* of its columns.
InitSum ==
    /\ NoObjects
    /\ off = NoOff
    /\ \E NR \in 0 .. MaxRows, NC \in 1 .. MaxCols :
         \E m \in [1 .. NR * NC -> Vals], c \in 0 .. NC - 1, r0 \in 0 .. NR + 1 :
            sumF = [pc |-> "loop", mat |-> m, NR |-> NR, NC |-> NC, r0 |-> r0,
                    c |-> c, r |-> r0, val |-> 0, reads |-> <<>>]

\* One iteration: elmt = mat[nd_offset(c, NC, r)]; val += elmt; ++r. A read
\* outside the array is undefined behaviour: any value.
Sum_body ==
    /\ sumF.pc = "loop"
    /\ Sum_cond(sumF.r, sumF.NR)
    /\ LET i == Sum_index(sumF.c, sumF.NC, sumF.r)
       IN  \E elmt \in (IF i < Len(sumF.mat) THEN {sumF.mat[i + 1]} ELSE Vals) :
              sumF' = [sumF EXCEPT !.val = @ + elmt, !.r = @ + 1,
                                   !.reads = Append(@, i)]
    /\ UNCHANGED <<objvars, off>>

\* The loop condition fails: return val.
Sum_return ==
    /\ sumF.pc = "loop"
    /\ ~Sum_cond(sumF.r, sumF.NR)
    /\ sumF' = [sumF EXCEPT !.pc = "done"]
    /\ UNCHANGED <<objvars, off>>

NextSum == Sum_body \/ Sum_return

\* A running call keeps running.
SpecSum == InitSum /\ [][NextSum]_vars /\ WF_vars(NextSum)

\* ------------------------------------------------------------ properties

\* C6: for non-negative x1, extent1, x2, the two-dimensional offset
\* nd_offset(x1, extent1, x2) is x1 + x2 * extent1.
C6_Offset2D ==
    (off.pc = "done" /\ Len(off.args) = 3) =>
        off.res = off.args[1] + off.args[3] * off.args[2]

\* C6 witness: nd_offset(2, 5, 3) returned 17.
C6_Witness == off.pc = "done" /\ off.args = <<2, 5, 3>> /\ off.res = 17

\* The product of the extents before dimension k of the argument list a.
RECURSIVE Stride(_, _)
Stride(a, k) == IF k = 1 THEN 1 ELSE a[2 * (k - 1)] * Stride(a, k - 1)

\* x1 + e1*x2 + e1*e2*x3 + ... over the first n dimensions of a.
RECURSIVE StrideSum(_, _)
StrideSum(a, n) ==
    IF n = 0 THEN 0 ELSE Stride(a, n) * a[2 * n - 1] + StrideSum(a, n - 1)

\* C7: nd_offset(x1, e1, ..., xn) is x1 + e1*x2 + e1*e2*x3 + ... +
\* (e1*...*e_{n-1})*xn; for three dimensions x1 + e1 * (x2 + e2 * x3).
C7_OffsetHorner ==
    off.pc = "done" =>
        /\ off.res = StrideSum(off.args, (Len(off.args) + 1) \div 2)
        /\ Len(off.args) = 5 =>
              off.res = off.args[1]
                          + off.args[2] * (off.args[3] + off.args[4] * off.args[5])

\* C7 witness: a four-dimensional offset, 1 + 2*(1 + 3*(1 + 2*1)) = 21.
C7_Witness == off.pc = "done" /\ off.args = <<1, 2, 1, 3, 1, 2, 1>> /\ off.res = 21

\* The rows sum() is to visit, in order.
SumRows == [k \in 1 .. (IF sumF.r0 < sumF.NR THEN sumF.NR - sumF.r0 ELSE 0) |->
               sumF.r0 + k - 1]

\* The sum of mat[c + r*NC] over the rows in rows[1..n].
RECURSIVE ColumnSum(_, _)
ColumnSum(rows, n) ==
    IF n = 0 THEN 0
    ELSE sumF.mat[sumF.c + rows[n] * sumF.NC + 1] + ColumnSum(rows, n - 1)

\* C8: sum() terminates; it returns the sum over r in [r0, NR) of
\* mat[c + r*NC], having read exactly these elements, once each, in
\* increasing order of r; for r0 >= NR it reads nothing and returns 0.
C8_Sum ==
    /\ <>(sumF.pc = "done")
    /\ [](sumF.pc = "done" =>
            /\ sumF.reads = [k \in 1 .. Len(SumRows) |-> sumF.c + SumRows[k] * sumF.NC]
            /\ sumF.val = ColumnSum(SumRows, Len(SumRows))
            /\ sumF.r0 >= sumF.NR => sumF.reads = <<>> /\ sumF.val = 0)

\* C8 witness: a call on column 1 of a 2 by 2 matrix from row 0 has returned
\* after reading elements 1 and 3.
C8_Witness ==
    /\ sumF.pc = "done"
    /\ sumF.NR = 2 /\ sumF.NC = 2 /\ sumF.r0 = 0 /\ sumF.c = 1
    /\ sumF.mat = <<1, 2, 1, 1>>
    /\ sumF.reads = <<1, 3>> /\ sumF.val = 3

====
